---- MODULE Spec2Model ----
(***************************************************************************)
(* State-machine model of the gas oven controller:                         *)
(*   ptx_sensor_filter.cpp  - median filter over raw millivolt samples     *)
(*   ptx_oven_control.cpp   - timed sensor-fault latch, heating state      *)
(*                            machine, door setter, lockout reset          *)
(*   ptx_oven_config.cpp    - configuration store                          *)
(*                                                                         *)
(* Representation.  Voltages are integral millivolts, as the filter        *)
(* returns them; status.vref_volts / signal_volts (mV / 1000.0f) are kept   *)
(* in millivolts and the vref limits of the configuration likewise.        *)
(* Temperatures are integral milli-degrees Celsius.  The raw samples of    *)
(* RawInputs are chosen so that the float computation of the source is     *)
(* exact on them (176.0, 179.875, 183.75 C at vref 5000 mV).               *)
(* Timestamps are uint32_t milliseconds.  TLC's integers are 32-bit signed, *)
(* so a uint32_t is the pair <<high 16 bits, low 16 bits>> and Add32,      *)
(* Sub32, Gt32, Ge32 are the unsigned 32-bit operations on such pairs.     *)
(***************************************************************************)
EXTENDS Integers, Naturals, Sequences, FiniteSets, TLC

VARIABLES
    pti_status,                 \* static ptx_oven_status_t pti_status
    pti_ignition_start_ms,      \* uint32_t
    pti_last_log_ms,            \* uint32_t
    pti_out_of_range_since_ms,  \* uint32_t, 0 = not currently out of range
    pti_valid_since_ms,         \* uint32_t, 0 = not in a valid window
    pti_ignition_attempt,       \* uint8_t
    pti_purge_start_ms,         \* uint32_t
    pti_temp_at_ignition_start, \* float, here milli-degrees
    pti_filter_state,           \* static struct of ptx_sensor_filter.cpp
    pti_oven_config,            \* static ptx_oven_config_t pti_oven_config
    actuator,                   \* commanded gas valve / igniter outputs
    now,                        \* value millis() returns
    flame_detect,               \* build flag PTX_FLAME_DETECT_ENABLED
    sensor,                     \* the raw sample pairs read_voltage delivers
    door_reg,                   \* what ptx_read_door_open returned to the running
                                \* scan, <<>> when no scan is between the read
                                \* and the write of line 300
    obs                         \* observer of the scan history (not program state)

vars == <<pti_status, pti_ignition_start_ms, pti_last_log_ms,
          pti_out_of_range_since_ms, pti_valid_since_ms, pti_ignition_attempt,
          pti_purge_start_ms, pti_temp_at_ignition_start, pti_filter_state,
          pti_oven_config, actuator, now, flame_detect, sensor, door_reg, obs>>

(***************************************************************************)
(* Bounds of the model                                                     *)
(***************************************************************************)
\* the clock is followed for ClockSpan ms around the wrap of the uint32_t
\* counter: it starts WrapLead ms before the wrap and is followed up to
\* MaxTime ms after it
ClockSpan == 4
WrapLead == ClockSpan \div 2
MaxTime == ClockSpan - WrapLead
\* largest advance of the clock between two scans
MaxDelta == 1
\* the end-to-end scenario is followed for E2EHorizon ms
E2EHorizon == 15000
\* the filter is followed for FilterExtraCalls updates after its window is full
FilterExtraCalls == 3
\* setter calls followed when the configuration store is driven on its own
MaxSetterCalls == 2

(***************************************************************************)
(* Program constants                                                       *)
(***************************************************************************)
PTX_FILTER_MAX_WINDOW == 10
ControlFilterWindow == 5
PTX_HEATING_STATE_IDLE == "IDLE"
PTX_HEATING_STATE_IGNITING == "IGNITING"
PTX_HEATING_STATE_HEATING == "HEATING"
PTX_HEATING_STATE_PURGING == "PURGING"
PTX_HEATING_STATE_LOCKOUT == "LOCKOUT"
HeatingStates == {PTX_HEATING_STATE_IDLE, PTX_HEATING_STATE_IGNITING,
                  PTX_HEATING_STATE_HEATING, PTX_HEATING_STATE_PURGING,
                  PTX_HEATING_STATE_LOCKOUT}

U16 == 65536
U8 == 256

\* the uint32_t with value n, for 0 <= n < 2^31
U32Of(n) == <<n \div U16, n % U16>>
Zero32 == <<0, 0>>

\* as Sub32, without the wraparound: 0 when b is ahead of a
Sub32_Saturating(a, b) ==
    IF b[1] > a[1] \/ (b[1] = a[1] /\ b[2] > a[2]) THEN <<0, 0>>
    ELSE LET lo == a[2] - b[2]
             borrow == IF lo < 0 THEN 1 ELSE 0
         IN  <<a[1] - b[1] - borrow, (lo + U16) % U16>>

\* uint32_t subtraction a - b
Sub32(a, b) ==
    LET lo == a[2] - b[2]
        borrow == IF lo < 0 THEN 1 ELSE 0
    IN  <<(a[1] - b[1] - borrow + U16) % U16, (lo + U16) % U16>>

\* uint32_t addition a + d, d a natural below 2^31
Add32(a, d) ==
    LET lo == a[2] + d
    IN  <<(a[1] + lo \div U16) % U16, lo % U16>>

\* unsigned comparisons a > b, a >= b
Gt32(a, b) == a[1] > b[1] \/ (a[1] = b[1] /\ a[2] > b[2])
Ge32(a, b) == a = b \/ Gt32(a, b)

(***************************************************************************)
(* Configuration store (ptx_oven_config.cpp)                               *)
(***************************************************************************)
\* the defaults of the store, vref limits in mV, temperatures in milli-degrees
DefaultConfig ==
    [ignition_duration_ms |-> 5000, periodic_log_ms |-> 1000,
     sensor_fault_window_ms |-> 1000, auto_resume_delay_ms |-> 3000,
     vref_min_v |-> 4500, vref_max_v |-> 5500,
     temp_target_c |-> 180000, temp_delta_c |-> 5000,
     max_ignition_attempts |-> 3, purge_time_ms |-> 2500,
     flame_detect_temp_rise_c |-> 2000]

\* ptx_oven_set_config copies any structure it is given
ptx_oven_set_config(cfg, config) == config

\* ptx_oven_reset_config_to_defaults writes every field
ptx_oven_reset_config_to_defaults(cfg) == DefaultConfig

\* The individual setters.  Each operator takes the store and the argument
\* and returns the store after the call; voltages are in mV and temperatures
\* in milli-degrees, as everywhere in this module.
ptx_oven_set_ignition_duration_ms(cfg, duration_ms) ==
    IF duration_ms >= 1000 /\ duration_ms <= 30000
    THEN [cfg EXCEPT !.ignition_duration_ms = duration_ms] ELSE cfg

ptx_oven_set_periodic_log_ms(cfg, interval_ms) ==
    IF interval_ms >= 100 /\ interval_ms <= 60000
    THEN [cfg EXCEPT !.periodic_log_ms = interval_ms] ELSE cfg

ptx_oven_set_sensor_fault_window_ms(cfg, window_ms) ==
    IF window_ms >= 100 /\ window_ms <= 10000
    THEN [cfg EXCEPT !.sensor_fault_window_ms = window_ms] ELSE cfg

ptx_oven_set_auto_resume_delay_ms(cfg, delay_ms) ==
    IF delay_ms >= 1000 /\ delay_ms <= 30000
    THEN [cfg EXCEPT !.auto_resume_delay_ms = delay_ms] ELSE cfg

\* as ptx_oven_set_vref_range_v, without the comparison of the two limits
ptx_oven_set_vref_range_v_Unordered(cfg, min_v, max_v) ==
    IF min_v >= 0 /\ min_v <= 10000 /\ max_v >= 0 /\ max_v <= 10000
    THEN [cfg EXCEPT !.vref_min_v = min_v, !.vref_max_v = max_v] ELSE cfg

ptx_oven_set_vref_range_v(cfg, min_v, max_v) ==
    IF min_v >= 0 /\ min_v <= 10000 /\ max_v >= 0 /\ max_v <= 10000
       /\ min_v < max_v
    THEN [cfg EXCEPT !.vref_min_v = min_v, !.vref_max_v = max_v] ELSE cfg

ptx_oven_set_temp_target_c(cfg, target_c) ==
    IF target_c >= 0 /\ target_c <= 300000
    THEN [cfg EXCEPT !.temp_target_c = target_c] ELSE cfg

ptx_oven_set_temp_delta_c(cfg, delta_c) ==
    IF delta_c >= 100 /\ delta_c <= 50000
    THEN [cfg EXCEPT !.temp_delta_c = delta_c] ELSE cfg

\* the parameter is a uint8_t
ptx_oven_set_max_ignition_attempts(cfg, attempts) ==
    IF attempts >= 1 /\ attempts <= 10
    THEN [cfg EXCEPT !.max_ignition_attempts = attempts] ELSE cfg

ptx_oven_set_purge_time_ms(cfg, purge_ms) ==
    IF purge_ms >= 1000 /\ purge_ms <= 10000
    THEN [cfg EXCEPT !.purge_time_ms = purge_ms] ELSE cfg

ptx_oven_set_flame_detect_temp_rise_c(cfg, temp_rise_c) ==
    IF temp_rise_c > 0 /\ temp_rise_c <= 50000
    THEN [cfg EXCEPT !.flame_detect_temp_rise_c = temp_rise_c] ELSE cfg

\* The configuration the controller is run with: written by
\* ptx_oven_set_config before the first scan.  Durations are a few
\* milliseconds so that every timing window opens and closes within the
\* clock range followed; the thresholds 176.0 / 183.75 C and the flame rise
\* 3.875 C coincide with temperatures the raw samples produce.
RunConfig ==
    [ignition_duration_ms |-> 1, periodic_log_ms |-> 1,
     sensor_fault_window_ms |-> 1, auto_resume_delay_ms |-> 1,
     vref_min_v |-> 4500, vref_max_v |-> 5500,
     temp_target_c |-> 179875, temp_delta_c |-> 3875,
     max_ignition_attempts |-> 2, purge_time_ms |-> 1,
     flame_detect_temp_rise_c |-> 3875]

(***************************************************************************)
(* Sensor filter (ptx_sensor_filter.cpp)                                   *)
(***************************************************************************)
Zeros(n) == [i \in 1..n |-> 0]

\* one inner-loop pass of the bubble sort: j runs from 0 to lim-1
RECURSIVE BubblePass(_, _, _)
BubblePass(sorted, j, lim) ==
    IF j >= lim THEN sorted
    ELSE IF sorted[j + 1] > sorted[j + 2]
         THEN BubblePass([sorted EXCEPT ![j + 1] = sorted[j + 2],
                                        ![j + 2] = sorted[j + 1]], j + 1, lim)
         ELSE BubblePass(sorted, j + 1, lim)

\* the outer loop: i runs from 0 to count-2
RECURSIVE BubbleSort(_, _, _)
BubbleSort(sorted, i, count) ==
    IF i >= count - 1 THEN sorted
    ELSE BubbleSort(BubblePass(sorted, 0, count - i - 1), i + 1, count)

\* mutant: an even window returns the lower central value, not the average
compute_median_LowerCentral(buffer, count) ==
    LET sorted == BubbleSort(SubSeq(buffer, 1, count), 0, count)
    IN  IF count % 2 = 0
        THEN sorted[count \div 2]
        ELSE sorted[count \div 2 + 1]

compute_median(buffer, count) ==
    LET sorted == BubbleSort(SubSeq(buffer, 1, count), 0, count)
    IN  IF count % 2 = 0
        THEN ((sorted[count \div 2] + sorted[count \div 2 + 1]) \div 2) % U16
        ELSE sorted[count \div 2 + 1]

ptx_sensor_filter_reset(fs) ==
    [fs EXCEPT !.history_count = 0, !.history_index = 0,
               !.vref_history = Zeros(PTX_FILTER_MAX_WINDOW),
               !.signal_history = Zeros(PTX_FILTER_MAX_WINDOW)]

\* as ptx_sensor_filter_init, without the minimum of 3
ptx_sensor_filter_init_NoMinimum(fs, window_size) ==
    LET w1 == IF window_size > PTX_FILTER_MAX_WINDOW
              THEN PTX_FILTER_MAX_WINDOW ELSE window_size
    IN  ptx_sensor_filter_reset([fs EXCEPT !.window_size = w1])

ptx_sensor_filter_init(fs, window_size) ==
    LET w1 == IF window_size > PTX_FILTER_MAX_WINDOW
              THEN PTX_FILTER_MAX_WINDOW ELSE window_size
        w2 == IF w1 < 3 THEN 3 ELSE w1
    IN  ptx_sensor_filter_reset([fs EXCEPT !.window_size = w2])

\* the filter state after ptx_sensor_filter_update
FilterStateAfterUpdate(fs, raw_vref_mv, raw_signal_mv) ==
    [fs EXCEPT
       !.vref_history[fs.history_index + 1] = raw_vref_mv,
       !.signal_history[fs.history_index + 1] = raw_signal_mv,
       !.history_index = (fs.history_index + 1) % fs.window_size,
       !.history_count = IF fs.history_count < fs.window_size
                         THEN fs.history_count + 1 ELSE fs.history_count]

\* mutant: the reading is filtered one sample before the window is full
FilterReading_OneEarly(fs2, raw_vref_mv, raw_signal_mv) ==
    IF fs2.history_count + 1 >= fs2.window_size
    THEN [vref_mv |-> compute_median(fs2.vref_history, fs2.window_size),
          signal_mv |-> compute_median(fs2.signal_history, fs2.window_size),
          valid |-> TRUE]
    ELSE [vref_mv |-> raw_vref_mv, signal_mv |-> raw_signal_mv, valid |-> FALSE]

\* the reading ptx_sensor_filter_update returns, fs2 the state after the update
FilterReading(fs2, raw_vref_mv, raw_signal_mv) ==
    IF fs2.history_count >= fs2.window_size
    THEN [vref_mv |-> compute_median(fs2.vref_history, fs2.window_size),
          signal_mv |-> compute_median(fs2.signal_history, fs2.window_size),
          valid |-> TRUE]
    ELSE [vref_mv |-> raw_vref_mv, signal_mv |-> raw_signal_mv, valid |-> FALSE]

\* ptx_sensor_filter_update: the new filter state and the reading returned
ptx_sensor_filter_update(fs, raw_vref_mv, raw_signal_mv) ==
    LET fs2 == FilterStateAfterUpdate(fs, raw_vref_mv, raw_signal_mv)
    IN  [fs |-> fs2, result |-> FilterReading(fs2, raw_vref_mv, raw_signal_mv)]

(***************************************************************************)
(* Fault monitor (ptx_eval_sensor_faults_with_timing)                      *)
(***************************************************************************)
VrefBad(cfg, vref_mv) == vref_mv < cfg.vref_min_v \/ vref_mv > cfg.vref_max_v

\* signal outside [0.10 * vref, 0.90 * vref]
SignalBad(vref_mv, signal_mv) ==
    10 * signal_mv < vref_mv \/ 10 * signal_mv > 9 * vref_mv

\* mutant: latches as soon as the run has lasted the window
FaultLatchDue_AtWindow(cfg, now_ms, since_ms) ==
    Ge32(Sub32(now_ms, since_ms), U32Of(cfg.sensor_fault_window_ms))

\* latch only if the run persists beyond the window
FaultLatchDue(cfg, now_ms, since_ms) ==
    Gt32(Sub32(now_ms, since_ms), U32Of(cfg.sensor_fault_window_ms))

\* mutant: clears one millisecond early
AutoResumeDue_OneEarly(cfg, now_ms, since_ms) ==
    Ge32(Add32(Sub32(now_ms, since_ms), 1), U32Of(cfg.auto_resume_delay_ms))

\* clear once the valid run has lasted the auto-resume delay
AutoResumeDue(cfg, now_ms, since_ms) ==
    Ge32(Sub32(now_ms, since_ms), U32Of(cfg.auto_resume_delay_ms))

\* m: the statics of ptx_oven_control.cpp as one record
ptx_eval_sensor_faults_with_timing(m, cfg, now_ms, vref_mv, signal_mv) ==
    LET vref_bad == VrefBad(cfg, vref_mv)
        signal_bad == SignalBad(vref_mv, signal_mv)
        out_of_range == vref_bad \/ signal_bad
        m1 == [m EXCEPT !.status.vref_volts = vref_mv,
                        !.status.signal_volts = signal_mv,
                        !.status.vref_fault = vref_bad,
                        !.status.signal_fault = signal_bad]
    IN  IF out_of_range
        THEN LET since == IF m1.out_of_range_since_ms = Zero32
                          THEN now_ms ELSE m1.out_of_range_since_ms
                 m2 == [m1 EXCEPT !.valid_since_ms = Zero32,
                                  !.out_of_range_since_ms = since]
             IN  IF ~m2.status.sensor_fault /\ FaultLatchDue(cfg, now_ms, since)
                 THEN [m2 EXCEPT !.status.sensor_fault = TRUE]
                 ELSE m2
        ELSE LET m2 == [m1 EXCEPT !.out_of_range_since_ms = Zero32]
             IN  IF m2.status.sensor_fault
                 THEN LET since == IF m2.valid_since_ms = Zero32
                                   THEN now_ms ELSE m2.valid_since_ms
                      IN  IF AutoResumeDue(cfg, now_ms, since)
                          THEN [m2 EXCEPT !.status.sensor_fault = FALSE,
                                          !.valid_since_ms = Zero32]
                          ELSE [m2 EXCEPT !.valid_since_ms = since]
                 ELSE [m2 EXCEPT !.valid_since_ms = Zero32]

(***************************************************************************)
(* Temperature (ptx_compute_temperature), milli-degrees:                   *)
(*   -10 + (signal - 0.1 vref) / (0.8 vref) * 310                          *)
(*     = -10 + (10 signal - vref) * 38.75 / vref                           *)
(***************************************************************************)
ptx_compute_temperature(vref_mv, signal_mv) ==
    IF 10 * signal_mv <= vref_mv THEN -10000
    ELSE IF 10 * signal_mv >= 9 * vref_mv THEN 300000
    ELSE -10000 + ((10 * signal_mv - vref_mv) * 38750) \div vref_mv

(***************************************************************************)
(* Heating state machine (ptx_update_heating)                              *)
(***************************************************************************)
\* mutant: only the door overrides
OverrideActive_DoorOnly(status) == status.door_open

\* door and sensor faults override everything
OverrideActive(status) == status.door_open \/ status.sensor_fault

\* mutant: heats up to the target, without the hysteresis half-band
HeatDemand_NoBand(cfg, temperature_c) == temperature_c <= cfg.temp_target_c

\* IDLE: heating is needed
HeatDemand(cfg, temperature_c) ==
    temperature_c <= cfg.temp_target_c - cfg.temp_delta_c

\* HEATING: upper threshold reached
HeatOff(cfg, temperature_c) ==
    temperature_c >= cfg.temp_target_c + cfg.temp_delta_c

\* mutant: the igniter stays on at exactly ignition_duration_ms
IgnitionPeriodOver_Late(cfg, now_ms, start_ms) ==
    Gt32(Sub32(now_ms, start_ms), U32Of(cfg.ignition_duration_ms))

\* IGNITING: the ignition period has ended
IgnitionPeriodOver(cfg, now_ms, start_ms) ==
    Ge32(Sub32(now_ms, start_ms), U32Of(cfg.ignition_duration_ms))

\* as PurgeOver, comparing the clock with a deadline start + purge time
PurgeOver_Deadline(cfg, now_ms, start_ms) ==
    Ge32(now_ms, Add32(start_ms, cfg.purge_time_ms))

\* PURGING: the purge time has ended
PurgeOver(cfg, now_ms, start_ms) ==
    Ge32(Sub32(now_ms, start_ms), U32Of(cfg.purge_time_ms))

FlameDetected(cfg, temp_rise) == temp_rise > cfg.flame_detect_temp_rise_c

\* mutant: one more attempt than configured before the lockout
AttemptsExhausted_OneMore(cfg, attempt) == attempt > cfg.max_ignition_attempts

AttemptsExhausted(cfg, attempt) == attempt >= cfg.max_ignition_attempts

\* mutant: the override keeps the attempt count
OverrideShutdown_KeepsAttempts(m) ==
    [m EXCEPT !.status.gas_on = FALSE, !.status.igniter_on = FALSE,
              !.status.state = PTX_HEATING_STATE_IDLE]

\* the forced shutdown of the override
OverrideShutdown(m) ==
    [m EXCEPT !.status.gas_on = FALSE, !.status.igniter_on = FALSE,
              !.status.state = PTX_HEATING_STATE_IDLE,
              !.ignition_attempt = 0]

\* as StartIgnition, with the gas valve left closed
StartIgnition_IgniterOnly(m, now_ms) ==
    [m EXCEPT !.ignition_attempt = (m.ignition_attempt + 1) % U8,
              !.status.igniter_on = TRUE,
              !.status.state = PTX_HEATING_STATE_IGNITING,
              !.ignition_start_ms = now_ms,
              !.temp_at_ignition_start = m.status.temperature_c]

StartIgnition(m, now_ms) ==
    [m EXCEPT !.ignition_attempt = (m.ignition_attempt + 1) % U8,
              !.status.gas_on = TRUE, !.status.igniter_on = TRUE,
              !.status.state = PTX_HEATING_STATE_IGNITING,
              !.ignition_start_ms = now_ms,
              !.temp_at_ignition_start = m.status.temperature_c]

\* mutant: the igniter is left on after the ignition period
IgnitionSuccess_IgniterLeftOn(m) ==
    [m EXCEPT !.status.state = PTX_HEATING_STATE_HEATING,
              !.ignition_attempt = 0]

IgnitionSuccess(m) ==
    [m EXCEPT !.status.igniter_on = FALSE,
              !.status.state = PTX_HEATING_STATE_HEATING,
              !.ignition_attempt = 0]

\* mutant: a failed ignition leaves the gas valve open
IgnitionFailure_GasLeftOn(m, cfg, now_ms) ==
    LET m1 == [m EXCEPT !.status.igniter_on = FALSE]
    IN  IF AttemptsExhausted(cfg, m1.ignition_attempt)
        THEN [m1 EXCEPT !.status.state = PTX_HEATING_STATE_LOCKOUT,
                        !.status.ignition_lockout = TRUE]
        ELSE [m1 EXCEPT !.status.state = PTX_HEATING_STATE_PURGING,
                        !.purge_start_ms = now_ms]

\* a failed ignition: outputs off, then lockout or purge
IgnitionFailure(m, cfg, now_ms) ==
    LET m1 == [m EXCEPT !.status.gas_on = FALSE, !.status.igniter_on = FALSE]
    IN  IF AttemptsExhausted(cfg, m1.ignition_attempt)
        THEN [m1 EXCEPT !.status.state = PTX_HEATING_STATE_LOCKOUT,
                        !.status.ignition_lockout = TRUE]
        ELSE [m1 EXCEPT !.status.state = PTX_HEATING_STATE_PURGING,
                        !.purge_start_ms = now_ms]

\* case PTX_HEATING_STATE_IGNITING; fd is PTX_FLAME_DETECT_ENABLED
\* as IgnitingStep, with the flame check compiled in whatever the flag says
IgnitingStep_FlameCheckAlways(m, cfg, now_ms, fd) ==
    IF IgnitionPeriodOver(cfg, now_ms, m.ignition_start_ms)
    THEN IF FlameDetected(cfg, m.status.temperature_c - m.temp_at_ignition_start)
         THEN IgnitionSuccess(m)
         ELSE IgnitionFailure(m, cfg, now_ms)
    ELSE m

IgnitingStep(m, cfg, now_ms, fd) ==
    IF IgnitionPeriodOver(cfg, now_ms, m.ignition_start_ms)
    THEN IF fd
         THEN IF FlameDetected(cfg, m.status.temperature_c - m.temp_at_ignition_start)
              THEN IgnitionSuccess(m)
              ELSE IgnitionFailure(m, cfg, now_ms)
         ELSE IgnitionSuccess(m)
    ELSE m

HeatingStep(m, cfg) ==
    IF HeatOff(cfg, m.status.temperature_c)
    THEN [m EXCEPT !.status.gas_on = FALSE, !.status.igniter_on = FALSE,
                   !.status.state = PTX_HEATING_STATE_IDLE,
                   !.ignition_attempt = 0]
    ELSE m

\* as PurgingStep, forgetting the attempts made when the purge completes
PurgingStep_ForgetsAttempts(m, cfg, now_ms) ==
    IF PurgeOver(cfg, now_ms, m.purge_start_ms)
    THEN [m EXCEPT !.status.state = PTX_HEATING_STATE_IDLE,
                   !.ignition_attempt = 0]
    ELSE m

PurgingStep(m, cfg, now_ms) ==
    IF PurgeOver(cfg, now_ms, m.purge_start_ms)
    THEN [m EXCEPT !.status.state = PTX_HEATING_STATE_IDLE]
    ELSE m

\* as LockoutStep, leaving LOCKOUT for IDLE with the attempts kept
LockoutStep_AutoRecovers(m) ==
    [m EXCEPT !.status.gas_on = FALSE, !.status.igniter_on = FALSE,
              !.status.ignition_lockout = FALSE,
              !.status.state = PTX_HEATING_STATE_IDLE]

LockoutStep(m) ==
    [m EXCEPT !.status.gas_on = FALSE, !.status.igniter_on = FALSE,
              !.status.ignition_lockout = TRUE]

ptx_update_heating(m, cfg, now_ms, fd) ==
    IF OverrideActive(m.status) THEN OverrideShutdown(m)
    ELSE CASE m.status.state = PTX_HEATING_STATE_IDLE ->
                IF HeatDemand(cfg, m.status.temperature_c)
                THEN StartIgnition(m, now_ms) ELSE m
           [] m.status.state = PTX_HEATING_STATE_IGNITING ->
                IgnitingStep(m, cfg, now_ms, fd)
           [] m.status.state = PTX_HEATING_STATE_HEATING -> HeatingStep(m, cfg)
           [] m.status.state = PTX_HEATING_STATE_PURGING ->
                PurgingStep(m, cfg, now_ms)
           [] m.status.state = PTX_HEATING_STATE_LOCKOUT -> LockoutStep(m)
           [] OTHER ->
                [m EXCEPT !.status.state = PTX_HEATING_STATE_IDLE,
                          !.status.gas_on = FALSE, !.status.igniter_on = FALSE]

\* as ptx_apply_outputs, without the igniter write
ptx_apply_outputs_GasOnly(status) == [gas |-> status.gas_on, igniter |-> FALSE]

\* ptx_apply_outputs: the commands handed to the actuator
ptx_apply_outputs(status) == [gas |-> status.gas_on, igniter |-> status.igniter_on]

\* ptx_oven_run_log: only the log timestamp is state
ptx_oven_run_log(m, cfg, now_ms) ==
    IF ~Ge32(Sub32(now_ms, m.last_log_ms), U32Of(cfg.periodic_log_ms)) THEN m
    ELSE [m EXCEPT !.last_log_ms = now_ms]

(***************************************************************************)
(* The statics of ptx_oven_control.cpp as one record, and back             *)
(***************************************************************************)
Statics ==
    [status |-> pti_status,
     ignition_start_ms |-> pti_ignition_start_ms,
     last_log_ms |-> pti_last_log_ms,
     out_of_range_since_ms |-> pti_out_of_range_since_ms,
     valid_since_ms |-> pti_valid_since_ms,
     ignition_attempt |-> pti_ignition_attempt,
     purge_start_ms |-> pti_purge_start_ms,
     temp_at_ignition_start |-> pti_temp_at_ignition_start]

ptx_read_door_open(status) == status.door_open

\* the scan from the assignment to pti_status.door_open on: m1 the statics
\* the fault monitor left, door the value stored, vref_mv and signal_mv the
\* filtered reading
UpdateFromDoorWrite(m1, door, vref_mv, signal_mv, cfg, now_ms, fd) ==
    LET m2 == [m1 EXCEPT !.status.door_open = door]
        m3 == [m2 EXCEPT !.status.temperature_c =
                           ptx_compute_temperature(vref_mv, signal_mv)]
        m4 == ptx_update_heating(m3, cfg, now_ms, fd)
        m5 == ptx_oven_run_log(m4, cfg, now_ms)
        m6 == [m5 EXCEPT !.status.ignition_attempt = m5.ignition_attempt]
    IN  [m |-> m6, out |-> ptx_apply_outputs(m4.status)]

\* one uninterrupted scan from the statics m at time now_ms; filtered is what
\* ptx_sensor_filter_read_and_update returned
ptx_oven_control_update(m, filtered, cfg, now_ms, fd) ==
    LET m1 == ptx_eval_sensor_faults_with_timing(m, cfg, now_ms,
                                                 filtered.vref_mv, filtered.signal_mv)
    IN  UpdateFromDoorWrite(m1, ptx_read_door_open(m1.status),
                            filtered.vref_mv, filtered.signal_mv, cfg, now_ms, fd)

\* mutant: the reset leaves the lockout flag set
ptx_oven_reset_ignition_lockout_KeepsFlag(m) ==
    IF m.status.state = PTX_HEATING_STATE_LOCKOUT
    THEN [m EXCEPT !.status.state = PTX_HEATING_STATE_IDLE,
                   !.ignition_attempt = 0,
                   !.status.ignition_attempt = 0]
    ELSE m

\* ptx_oven_reset_ignition_lockout on the statics m
ptx_oven_reset_ignition_lockout(m) ==
    IF m.status.state = PTX_HEATING_STATE_LOCKOUT
    THEN [m EXCEPT !.status.state = PTX_HEATING_STATE_IDLE,
                   !.status.ignition_lockout = FALSE,
                   !.ignition_attempt = 0,
                   !.status.ignition_attempt = 0]
    ELSE m

(***************************************************************************)
(* Inputs                                                                  *)
(***************************************************************************)
\* raw (vref_mv, signal_mv) pairs read_voltage can deliver:
\*   5000/2900 -> 176.0 C, 5000/2950 -> 179.875 C, 5000/3000 -> 183.75 C,
\*   4000/2900 -> vref below vref_min_v
RawInputs == {<<5000, 2900>>, <<5000, 2950>>, <<5000, 3000>>, <<4000, 2900>>}

\* in one behaviour the sensor alternates between two of them
SensorProfiles == {S \in SUBSET RawInputs : Cardinality(S) = 2}

Deltas == 0..MaxDelta

\* millis() at start-up: WrapLead ms before the counter wraps
StartTimes == {Sub32(Zero32, U32Of(WrapLead))}

\* the clock values followed: the last WrapLead ms before the wrap, then 0..MaxTime
ClockAfter(t, d) == Add32(t, d)
InRange(t, d) ==
    LET t2 == Add32(t, d)
    IN  t2[1] = U16 - 1 \/ (t2[1] = 0 /\ t2[2] <= MaxTime)

(***************************************************************************)
(* Initial state: static initialisers, then ptx_oven_control_init          *)
(***************************************************************************)
InitStatus ==
    [vref_volts |-> 0, signal_volts |-> 0, temperature_c |-> -10000,
     door_open |-> FALSE, gas_on |-> FALSE, igniter_on |-> FALSE,
     state |-> PTX_HEATING_STATE_IDLE,
     vref_fault |-> FALSE, signal_fault |-> FALSE, sensor_fault |-> FALSE,
     ignition_attempt |-> 0, ignition_lockout |-> FALSE]

\* ptx_actuator_init: both outputs off
ActuatorInit == [gas |-> FALSE, igniter |-> FALSE]

ZeroFilter ==
    [window_size |-> 0, vref_history |-> Zeros(PTX_FILTER_MAX_WINDOW),
     signal_history |-> Zeros(PTX_FILTER_MAX_WINDOW),
     history_count |-> 0, history_index |-> 0]

\* Observer of the scan history.  Times are real time (sums of the clock
\* advances, not differences of timestamps) as of the last scan, -1 outside a
\* run, saturating just past the threshold they are compared with.
\*   oor_run   - run of consecutive scans with an out-of-range reading
\*   valid_run - run of consecutive scans with a valid reading that started
\*               with sensor_fault latched
\*   ign_run   - since the scan that started ignition, for a scan that entered
\*               IGNITING or started in it
\*   ign_temp  - the temperature of the scan that started ignition, while in
\*               IGNITING
\*   fails     - the number of consecutive failed ignitions; an ignition
\*               success, an override scan and a scan that finds the lockout
\*               reset start a new count
\*   purge_run - since the scan that entered PURGING, until a scan at or past
\*               purge_time_ms after it, whatever the state is by then
\*   script    - how many scans of the end-to-end scenario have been played
\*               since init, -1 once the inputs have left the scenario
\*   samples, reading - when the filter is driven on its own: the raw sample
\*               pairs passed to ptx_sensor_filter_update since the last init
\*               or reset, and the reading the last call returned
\*   setter    - when the configuration store is driven on its own: the
\*               number of setter calls made, the last call (setter name and
\*               arguments) and the store as it was before that call
NoReading == [vref_mv |-> 0, signal_mv |-> 0, valid |-> FALSE]

NoSetter == [calls |-> 0, call |-> <<>>, before |-> DefaultConfig]

ObsInit == [oor_run |-> -1, valid_run |-> -1, ign_run |-> -1, ign_temp |-> 0,
            fails |-> 0, purge_run |-> -1, script |-> 0,
            samples |-> <<>>, reading |-> NoReading, setter |-> NoSetter]

\* the statics after start-up and ptx_oven_control_init
ControlInit ==
    /\ pti_status = InitStatus
    /\ pti_ignition_start_ms = Zero32
    /\ pti_last_log_ms = Zero32
    /\ pti_out_of_range_since_ms = Zero32
    /\ pti_valid_since_ms = Zero32
    /\ pti_ignition_attempt = 0
    /\ pti_purge_start_ms = Zero32
    /\ pti_temp_at_ignition_start = 0
    /\ pti_filter_state = ptx_sensor_filter_init(ZeroFilter, ControlFilterWindow)
    /\ actuator = ActuatorInit
    /\ door_reg = <<>>
    /\ obs = ObsInit

Init ==
    /\ ControlInit
    /\ pti_oven_config = ptx_oven_set_config(DefaultConfig, RunConfig)
    /\ now \in StartTimes
    /\ flame_detect \in BOOLEAN
    /\ sensor \in SensorProfiles

(***************************************************************************)
(* Actions                                                                 *)
(***************************************************************************)
Min(a, b) == IF a < b THEN a ELSE b

RunTime(run, d, cap) == IF run < 0 THEN 0 ELSE Min(run + d, cap)

\* The end-to-end scenario, by its inputs: door closed, flame detection not
\* compiled in, vref 5000 mV; first scan with the signal for 160 C, second
\* scan E2EAdvance ms later, third scan with the signal for 185 C.  The
\* signals are what the tests' mv_for_temp(5000, 160) and (5000, 185) give.
E2ERaw160 == <<5000, 2694>>
E2ERaw185 == <<5000, 3016>>
E2EAdvance == 5000

ObsScript(o, d, fd, st, st2) ==
    LET raw == <<st2.vref_volts, st2.signal_volts>>
    IN  IF fd \/ st.door_open THEN -1
        ELSE IF o.script = 0 /\ raw = E2ERaw160 THEN 1
        ELSE IF o.script = 1 /\ raw = E2ERaw160 /\ d = E2EAdvance THEN 2
        ELSE IF o.script = 2 /\ raw = E2ERaw185 THEN 3
        ELSE -1

\* the scan from status st to st2 ran ptx_update_heating under the override
ObsOverride(st, st2) == st.door_open \/ st2.sensor_fault

\* the scan from st to st2, ign_run2 after the ignition start, ends the
\* ignition period
ObsPeriodOver(cfg, st, ign_run2) ==
    st.state = PTX_HEATING_STATE_IGNITING /\ ign_run2 >= cfg.ignition_duration_ms

\* ... and it is a failed ignition: flame detection is compiled in and the
\* temperature has not risen by more than flame_detect_temp_rise_c
ObsFailedIgnition(cfg, fd, st, st2, ign_run2, ign_temp) ==
    /\ ~ObsOverride(st, st2)
    /\ ObsPeriodOver(cfg, st, ign_run2)
    /\ fd
    /\ st2.temperature_c - ign_temp <= cfg.flame_detect_temp_rise_c

\* the observer after a scan d ms after the previous one, from status st to st2
ObsAfterScan(o, d, cfg, fd, st, st2) ==
    LET oor == st2.vref_fault \/ st2.signal_fault
        ign_run2 == IF st.state = PTX_HEATING_STATE_IGNITING
                    THEN RunTime(o.ign_run, d, cfg.ignition_duration_ms)
                    ELSE IF st2.state = PTX_HEATING_STATE_IGNITING THEN 0 ELSE -1
        fails == IF /\ st.state = PTX_HEATING_STATE_IDLE /\ ~st.ignition_lockout
                    /\ o.fails >= cfg.max_ignition_attempts
                 THEN 0 ELSE o.fails
    IN  [oor_run |-> IF oor THEN RunTime(o.oor_run, d, cfg.sensor_fault_window_ms + 1)
                     ELSE -1,
         valid_run |-> IF ~oor /\ st.sensor_fault
                       THEN RunTime(o.valid_run, d, cfg.auto_resume_delay_ms)
                       ELSE -1,
         ign_run |-> ign_run2,
         ign_temp |-> IF st2.state # PTX_HEATING_STATE_IGNITING THEN 0
                      ELSE IF st.state = PTX_HEATING_STATE_IGNITING THEN o.ign_temp
                      ELSE st2.temperature_c,
         fails |-> IF ObsOverride(st, st2) THEN 0
                   ELSE IF ObsFailedIgnition(cfg, fd, st, st2, ign_run2, o.ign_temp)
                        THEN Min(fails + 1, cfg.max_ignition_attempts + 1)
                   ELSE IF ObsPeriodOver(cfg, st, ign_run2) THEN 0
                   ELSE fails,
         purge_run |-> IF /\ st2.state = PTX_HEATING_STATE_PURGING
                          /\ st.state # PTX_HEATING_STATE_PURGING
                       THEN 0
                       ELSE IF o.purge_run < 0 \/ o.purge_run + d >= cfg.purge_time_ms
                            THEN -1
                       ELSE o.purge_run + d,
         script |-> ObsScript(o, d, fd, st, st2),
         samples |-> o.samples, reading |-> o.reading,
         setter |-> o.setter]

\* one call of ptx_oven_control_update, d ms after the previous one; f is
\* what ptx_sensor_filter_update makes of the raw sample pair at the inputs
ScanAt(f, d) ==
    /\ \E r \in {ptx_oven_control_update(Statics, f.result, pti_oven_config,
                                        ClockAfter(now, d), flame_detect)} :
           /\ now' = ClockAfter(now, d)
           /\ pti_status' = r.m.status
           /\ pti_ignition_start_ms' = r.m.ignition_start_ms
           /\ pti_last_log_ms' = r.m.last_log_ms
           /\ pti_out_of_range_since_ms' = r.m.out_of_range_since_ms
           /\ pti_valid_since_ms' = r.m.valid_since_ms
           /\ pti_ignition_attempt' = r.m.ignition_attempt
           /\ pti_purge_start_ms' = r.m.purge_start_ms
           /\ pti_temp_at_ignition_start' = r.m.temp_at_ignition_start
           /\ pti_filter_state' = f.fs
           /\ actuator' = r.out
           /\ obs' = ObsAfterScan(obs, d, pti_oven_config, flame_detect,
                                  pti_status, r.m.status)
    /\ UNCHANGED <<pti_oven_config, flame_detect, sensor, door_reg>>

\* the scan loop calls ptx_oven_control_update with the raw sample pair raw at
\* the inputs; millis() has advanced by d since the previous scan
Scan(raw) ==
    \E f \in {ptx_sensor_filter_update(pti_filter_state, raw[1], raw[2])} :
    \E d \in Deltas :
        InRange(now, d) /\ ScanAt(f, d)

\* the door interrupt calls ptx_oven_set_door_state(open)
SetDoorState(open) ==
    /\ pti_status' = [pti_status EXCEPT !.door_open = open]
    /\ UNCHANGED <<pti_ignition_start_ms, pti_last_log_ms, pti_out_of_range_since_ms,
                   pti_valid_since_ms, pti_ignition_attempt, pti_purge_start_ms,
                   pti_temp_at_ignition_start, pti_filter_state, pti_oven_config,
                   actuator, now, flame_detect, sensor, door_reg, obs>>

\* the application calls ptx_oven_reset_ignition_lockout
ResetIgnitionLockout ==
    /\ \E r \in {ptx_oven_reset_ignition_lockout(Statics)} :
           /\ pti_status' = r.status
           /\ pti_ignition_attempt' = r.ignition_attempt
    /\ UNCHANGED <<pti_ignition_start_ms, pti_last_log_ms, pti_out_of_range_since_ms,
                   pti_valid_since_ms, pti_purge_start_ms, pti_temp_at_ignition_start,
                   pti_filter_state, pti_oven_config, actuator, now, flame_detect, sensor,
                   door_reg, obs>>

Next ==
    \/ \E raw \in sensor : Scan(raw)
    \/ \E open \in BOOLEAN : SetDoorState(open)
    \/ ResetIgnitionLockout

Spec == Init /\ [][Next]_vars

(***************************************************************************)
(* The scan interrupted by the door interrupt.  Line 300,                  *)
(*   pti_status.door_open = ptx_read_door_open();                          *)
(* reads the flag and stores what it read; the flag is a plain bool shared  *)
(* with the interrupt handler, so the handler can run between the read and *)
(* the store.  A build may also drop the store of a value just read: both  *)
(* outcomes are taken.                                                     *)
(***************************************************************************)
StaticsBecome(m) ==
    /\ pti_status' = m.status
    /\ pti_ignition_start_ms' = m.ignition_start_ms
    /\ pti_last_log_ms' = m.last_log_ms
    /\ pti_out_of_range_since_ms' = m.out_of_range_since_ms
    /\ pti_valid_since_ms' = m.valid_since_ms
    /\ pti_ignition_attempt' = m.ignition_attempt
    /\ pti_purge_start_ms' = m.purge_start_ms
    /\ pti_temp_at_ignition_start' = m.temp_at_ignition_start

\* lines 290-300 up to the return of ptx_read_door_open
ScanReadDoor(raw) ==
    /\ door_reg = <<>>
    /\ \E f \in {ptx_sensor_filter_update(pti_filter_state, raw[1], raw[2])} :
       \E d \in Deltas :
           /\ InRange(now, d)
           /\ \E m1 \in {ptx_eval_sensor_faults_with_timing(
                              Statics, pti_oven_config, ClockAfter(now, d),
                              f.result.vref_mv, f.result.signal_mv)} :
                  /\ StaticsBecome(m1)
                  /\ door_reg' = <<ptx_read_door_open(m1.status)>>
           /\ now' = ClockAfter(now, d)
           /\ pti_filter_state' = f.fs
    /\ UNCHANGED <<pti_oven_config, actuator, flame_detect, sensor, obs>>

\* lines 300-313 from the store on: the store writes what was read, or is
\* dropped and leaves what the flag holds now
ScanWriteDoor ==
    /\ door_reg # <<>>
    /\ \E door \in {door_reg[1], pti_status.door_open} :
       \E r \in {UpdateFromDoorWrite(Statics, door, pti_status.vref_volts,
                                     pti_status.signal_volts, pti_oven_config,
                                     now, flame_detect)} :
           /\ StaticsBecome(r.m)
           /\ actuator' = r.out
    /\ door_reg' = <<>>
    /\ UNCHANGED <<pti_filter_state, pti_oven_config, now, flame_detect, sensor, obs>>

\* the sensor alternates between 176.0 C and 183.75 C, flame detection is
\* not compiled in
RaceProfile == {<<5000, 2900>>, <<5000, 3000>>}

InitRace == Init /\ sensor = RaceProfile /\ ~flame_detect

NextRace ==
    \/ \E raw \in sensor : ScanReadDoor(raw)
    \/ ScanWriteDoor
    \/ \E open \in BOOLEAN : SetDoorState(open)

SpecRace == InitRace /\ [][NextRace]_vars

(***************************************************************************)
(* The controller run as the end-to-end scenario runs it: configuration    *)
(* target 180 C, half-band 2 C, ignition 5000 ms, flame detection not      *)
(* compiled in; the sensor delivers the signals for 160 C and 185 C.       *)
(***************************************************************************)
E2EConfig == [DefaultConfig EXCEPT !.temp_delta_c = 2000]

\* millis() at init: so that the counter wraps at the second scan, during
\* the ignition, or not at all
E2EBase == Sub32(Zero32, U32Of(E2EAdvance))
E2EStartTimes == {E2EBase, Add32(E2EBase, E2EAdvance \div 2), Zero32, U32Of(1)}

E2EDeltas == {0, E2EAdvance \div 2, E2EAdvance}

E2EInRange(t, d) ==
    LET e == Sub32(Add32(t, d), E2EBase)
    IN  e[1] = 0 /\ e[2] <= E2EHorizon

InitE2E ==
    /\ ControlInit
    /\ pti_oven_config = ptx_oven_set_config(DefaultConfig, E2EConfig)
    /\ now \in E2EStartTimes
    /\ flame_detect = FALSE
    /\ sensor = {E2ERaw160, E2ERaw185}

ScanE2E(raw) ==
    \E f \in {ptx_sensor_filter_update(pti_filter_state, raw[1], raw[2])} :
    \E d \in E2EDeltas :
        E2EInRange(now, d) /\ ScanAt(f, d)

NextE2E ==
    \/ \E raw \in sensor : ScanE2E(raw)
    \/ \E open \in BOOLEAN : SetDoorState(open)

SpecE2E == InitE2E /\ [][NextE2E]_vars

(***************************************************************************)
(* The sensor filter driven on its own through its public functions        *)
(***************************************************************************)
\* window sizes requested of ptx_sensor_filter_init, beyond both clamps
FilterWindowRequests == (0..(PTX_FILTER_MAX_WINDOW + 2)) \cup {U8 - 1}

\* the raw pair of the n-th update: either a fresh value on each channel
\* (rising on vref, falling on signal), or the two extremes of uint16_t
FilterSamples(n) == {<<n, U16 - 1 - n>>, <<U16 - 1, 0>>}

InitFilter ==
    /\ ControlInit
    /\ pti_oven_config = DefaultConfig
    /\ now = Zero32
    /\ flame_detect = FALSE
    /\ sensor = {}

FilterUnchanged ==
    UNCHANGED <<pti_status, pti_ignition_start_ms, pti_last_log_ms,
                pti_out_of_range_since_ms, pti_valid_since_ms, pti_ignition_attempt,
                pti_purge_start_ms, pti_temp_at_ignition_start, pti_oven_config,
                actuator, now, flame_detect, sensor, door_reg>>

FilterInitCall(window_size) ==
    /\ pti_filter_state' = ptx_sensor_filter_init(pti_filter_state, window_size)
    /\ obs' = [obs EXCEPT !.samples = <<>>, !.reading = NoReading]
    /\ FilterUnchanged

FilterResetCall ==
    /\ pti_filter_state' = ptx_sensor_filter_reset(pti_filter_state)
    /\ obs' = [obs EXCEPT !.samples = <<>>, !.reading = NoReading]
    /\ FilterUnchanged

FilterUpdateCall(raw) ==
    /\ Len(obs.samples) < pti_filter_state.window_size + FilterExtraCalls
    /\ \E f \in {ptx_sensor_filter_update(pti_filter_state, raw[1], raw[2])} :
           /\ pti_filter_state' = f.fs
           /\ obs' = [obs EXCEPT !.samples = Append(obs.samples, raw),
                                  !.reading = f.result]
    /\ FilterUnchanged

NextFilter ==
    \/ \E w \in FilterWindowRequests : FilterInitCall(w)
    \/ FilterResetCall
    \/ \E raw \in FilterSamples(Len(obs.samples) + 1) : FilterUpdateCall(raw)

SpecFilter == InitFilter /\ [][NextFilter]_vars

(***************************************************************************)
(* The configuration store driven on its own: setter calls with arguments  *)
(* at, just inside and just outside the limits each setter tests.          *)
(***************************************************************************)
\* arguments for a setter whose test is lo <= v <= hi (v unsigned)
AroundRange(lo, hi) == {0, lo - 1, lo, hi, hi + 1}

\* float arguments (milli-units) for a setter testing lo <= v <= hi
AroundRangeSigned(lo, hi) == {-1, lo - 1, lo, hi, hi + 1}

\* limits for ptx_oven_set_vref_range_v, mV
VrefLimitArgs == {-1, 0, 4000, 10000, 10001}

\* values of the uint8_t parameter of ptx_oven_set_max_ignition_attempts
AttemptArgs == {0, 1, 10, 11, U8 - 1}

InitConfig ==
    /\ ControlInit
    /\ pti_oven_config = DefaultConfig
    /\ now = Zero32
    /\ flame_detect = FALSE
    /\ sensor = {}

ConfigUnchanged ==
    UNCHANGED <<pti_status, pti_ignition_start_ms, pti_last_log_ms,
                pti_out_of_range_since_ms, pti_valid_since_ms,
                pti_ignition_attempt, pti_purge_start_ms,
                pti_temp_at_ignition_start, pti_filter_state, actuator, now,
                flame_detect, sensor, door_reg>>

\* one call of a setter: the store becomes cfg2, the call is recorded
SetterCall(call, cfg2) ==
    /\ obs.setter.calls < MaxSetterCalls
    /\ pti_oven_config' = cfg2
    /\ obs' = [obs EXCEPT !.setter = [calls |-> obs.setter.calls + 1,
                                      call |-> call,
                                      before |-> pti_oven_config]]
    /\ ConfigUnchanged

SetIgnitionDuration(v) ==
    SetterCall(<<"ignition_duration_ms", v>>,
               ptx_oven_set_ignition_duration_ms(pti_oven_config, v))

SetPeriodicLog(v) ==
    SetterCall(<<"periodic_log_ms", v>>,
               ptx_oven_set_periodic_log_ms(pti_oven_config, v))

SetSensorFaultWindow(v) ==
    SetterCall(<<"sensor_fault_window_ms", v>>,
               ptx_oven_set_sensor_fault_window_ms(pti_oven_config, v))

SetAutoResumeDelay(v) ==
    SetterCall(<<"auto_resume_delay_ms", v>>,
               ptx_oven_set_auto_resume_delay_ms(pti_oven_config, v))

SetVrefRange(min_v, max_v) ==
    SetterCall(<<"vref_range_v", min_v, max_v>>,
               ptx_oven_set_vref_range_v(pti_oven_config, min_v, max_v))

SetTempTarget(v) ==
    SetterCall(<<"temp_target_c", v>>,
               ptx_oven_set_temp_target_c(pti_oven_config, v))

SetTempDelta(v) ==
    SetterCall(<<"temp_delta_c", v>>,
               ptx_oven_set_temp_delta_c(pti_oven_config, v))

SetMaxIgnitionAttempts(v) ==
    SetterCall(<<"max_ignition_attempts", v>>,
               ptx_oven_set_max_ignition_attempts(pti_oven_config, v))

SetPurgeTime(v) ==
    SetterCall(<<"purge_time_ms", v>>,
               ptx_oven_set_purge_time_ms(pti_oven_config, v))

SetFlameDetectTempRise(v) ==
    SetterCall(<<"flame_detect_temp_rise_c", v>>,
               ptx_oven_set_flame_detect_temp_rise_c(pti_oven_config, v))

NextConfig ==
    \/ \E v \in AroundRange(1000, 30000) : SetIgnitionDuration(v)
    \/ \E v \in AroundRange(100, 60000) : SetPeriodicLog(v)
    \/ \E v \in AroundRange(100, 10000) : SetSensorFaultWindow(v)
    \/ \E v \in AroundRange(1000, 30000) : SetAutoResumeDelay(v)
    \/ \E min_v \in VrefLimitArgs, max_v \in VrefLimitArgs :
           SetVrefRange(min_v, max_v)
    \/ \E v \in AroundRangeSigned(0, 300000) : SetTempTarget(v)
    \/ \E v \in AroundRangeSigned(100, 50000) : SetTempDelta(v)
    \/ \E v \in AttemptArgs : SetMaxIgnitionAttempts(v)
    \/ \E v \in AroundRange(1000, 10000) : SetPurgeTime(v)
    \/ \E v \in AroundRangeSigned(0, 50000) \cup {1} :
           SetFlameDetectTempRise(v)

SpecConfig == InitConfig /\ [][NextConfig]_vars

(***************************************************************************)
(* The configuration store with all its operations: the individual         *)
(* setters, ptx_oven_set_config and ptx_oven_reset_config_to_defaults.     *)
(***************************************************************************)
\* structures handed to ptx_oven_set_config: the defaults, the defaults
\* with another half-band, a structure with millisecond durations, and one
\* with the vref limits exchanged
ConfigStructs ==
    {DefaultConfig, E2EConfig, RunConfig,
     [DefaultConfig EXCEPT !.vref_min_v = 5500, !.vref_max_v = 4500]}

SetConfig(config) ==
    SetterCall(<<"config">>, ptx_oven_set_config(pti_oven_config, config))

ResetConfigToDefaults ==
    SetterCall(<<"defaults">>, ptx_oven_reset_config_to_defaults(pti_oven_config))

NextStore ==
    \/ NextConfig
    \/ \E config \in ConfigStructs : SetConfig(config)
    \/ ResetConfigToDefaults

SpecStore == InitConfig /\ [][NextStore]_vars

(***************************************************************************)
(* The controller run for ever.  The scan loop never ends, so the          *)
(* millisecond counter goes round its 2^32 values again and again.  To     *)
(* follow it all the way round, time is taken in steps of LiveTick =       *)
(* 2^28 ms: every scan comes one or two steps after the previous one, and  *)
(* the ignition and purge durations written by ptx_oven_set_config are     *)
(* two steps.  The arithmetic is the 32-bit arithmetic of the code.        *)
(***************************************************************************)
LiveTick == U16 * (U16 \div 16)

LiveDeltas == {LiveTick, 2 * LiveTick}

LiveConfig ==
    [RunConfig EXCEPT !.ignition_duration_ms = 2 * LiveTick,
                      !.purge_time_ms = 2 * LiveTick]

\* the sensor delivers the pair for 176.0 C, below the ON threshold: the
\* controller asks for heat all the time
LiveProfile == {<<5000, 2900>>}

InitLive ==
    /\ ControlInit
    /\ pti_oven_config = ptx_oven_set_config(DefaultConfig, LiveConfig)
    /\ now \in StartTimes
    /\ flame_detect \in BOOLEAN
    /\ sensor = LiveProfile

\* a scan with the clock strictly ahead of the previous scan's
ScanLive(raw) ==
    \E f \in {ptx_sensor_filter_update(pti_filter_state, raw[1], raw[2])} :
    \E d \in LiveDeltas :
        ScanAt(f, d)

ScanLoop == \E raw \in sensor : ScanLive(raw)

NextLive ==
    \/ ScanLoop
    \/ \E open \in BOOLEAN : SetDoorState(open)
    \/ ResetIgnitionLockout

\* millis() read by a scan is ahead of the value the previous scan read;
\* among the steps of NextLive only a scan changes now
ClockAdvances == \E d \in LiveDeltas : now' = ClockAfter(now, d)

\* the scan loop keeps calling ptx_oven_control_update and the clock keeps
\* advancing: a step that advances the clock is always possible (a scan has
\* no precondition), so it is taken again and again
SpecLive == InitLive /\ [][NextLive]_vars /\ WF_now(ClockAdvances)

(***************************************************************************)
(* The controller initialised again while it runs: the application calls   *)
(* ptx_oven_control_init between scans.  The function assigns every field  *)
(* of pti_status, the ignition and log timestamps, the attempt counter,    *)
(* the purge timestamp and the ignition temperature, and initialises the   *)
(* actuator and the filter; it has no assignment to                        *)
(* pti_out_of_range_since_ms or pti_valid_since_ms.                        *)
(***************************************************************************)
ptx_oven_control_init(m) ==
    [m EXCEPT !.status = InitStatus,
              !.ignition_start_ms = Zero32,
              !.last_log_ms = Zero32,
              !.ignition_attempt = 0,
              !.purge_start_ms = Zero32,
              !.temp_at_ignition_start = 0]

ControlInitCall ==
    /\ \E m \in {ptx_oven_control_init(Statics)} :
           /\ pti_status' = m.status
           /\ pti_ignition_start_ms' = m.ignition_start_ms
           /\ pti_last_log_ms' = m.last_log_ms
           /\ pti_out_of_range_since_ms' = m.out_of_range_since_ms
           /\ pti_valid_since_ms' = m.valid_since_ms
           /\ pti_ignition_attempt' = m.ignition_attempt
           /\ pti_purge_start_ms' = m.purge_start_ms
           /\ pti_temp_at_ignition_start' = m.temp_at_ignition_start
    /\ actuator' = ActuatorInit
    /\ pti_filter_state' = ptx_sensor_filter_init(pti_filter_state, ControlFilterWindow)
    /\ obs' = ObsInit
    /\ UNCHANGED <<pti_oven_config, now, flame_detect, sensor, door_reg>>

\* the sensor delivers a good pair or a pair with vref below vref_min_v
ReinitProfile == {<<5000, 2900>>, <<4000, 2900>>}

InitReinit == Init /\ sensor = ReinitProfile /\ ~flame_detect

NextReinit ==
    \/ \E raw \in sensor : Scan(raw)
    \/ ControlInitCall

SpecReinit == InitReinit /\ [][NextReinit]_vars

(***************************************************************************)
(* Properties                                                              *)
(***************************************************************************)
\* every scan advances the filter's write position, nothing else touches it
ScanStep == pti_filter_state' # pti_filter_state

\* the status fields after the scan
OutOfRange(status) == status.vref_fault \/ status.signal_fault
OutputsOff(status) == ~status.gas_on /\ ~status.igniter_on

\* ptx_update_heating ran with the override condition true: the door flag is
\* the one the scan found, sensor_fault the one the fault monitor left
OverrideInScan == pti_status.door_open \/ pti_status'.sensor_fault

TempOn == pti_oven_config.temp_target_c - pti_oven_config.temp_delta_c
TempOff == pti_oven_config.temp_target_c + pti_oven_config.temp_delta_c

C2_LockoutTerminal ==
    [][(ScanStep /\ pti_status.state = PTX_HEATING_STATE_LOCKOUT)
         => pti_status'.state = PTX_HEATING_STATE_LOCKOUT]_vars

\* C3 - gas_on and igniter_on are true only in IGNITING or HEATING, and never
\* in LOCKOUT.
C3_OutputsOnlyWhenFiring ==
    /\ pti_status.gas_on
         => pti_status.state \in {PTX_HEATING_STATE_IGNITING, PTX_HEATING_STATE_HEATING}
    /\ pti_status.igniter_on
         => pti_status.state \in {PTX_HEATING_STATE_IGNITING, PTX_HEATING_STATE_HEATING}
    /\ pti_status.state = PTX_HEATING_STATE_LOCKOUT => OutputsOff(pti_status)

\* a failed ignition has shut the outputs and entered PURGING
C3_Witness ==
    /\ pti_status.state = PTX_HEATING_STATE_PURGING
    /\ OutputsOff(pti_status)
    /\ pti_ignition_attempt = 1

\* C4 - gas_on and igniter_on are never true while door_open or sensor_fault
\* is true, in every reachable state (between scans included).
C4_NoOutputUnderOverride ==
    (pti_status.door_open \/ pti_status.sensor_fault) => OutputsOff(pti_status)

C6_LatchWhenHeld ==
    obs.oor_run > pti_oven_config.sensor_fault_window_ms => pti_status.sensor_fault

C8_ClearWhenHeld ==
    obs.valid_run >= pti_oven_config.auto_resume_delay_ms => ~pti_status.sensor_fault

C10_HysteresisBand ==
    [][(ScanStep /\ ~OverrideInScan)
         => /\ (pti_status.state = PTX_HEATING_STATE_IDLE
                  /\ pti_status'.state = PTX_HEATING_STATE_IGNITING)
                 => pti_status'.temperature_c <= TempOn
            /\ (pti_status.state = PTX_HEATING_STATE_HEATING
                  /\ pti_status'.state = PTX_HEATING_STATE_IDLE)
                 => pti_status'.temperature_c >= TempOff
            /\ (/\ pti_status.state \in {PTX_HEATING_STATE_IDLE, PTX_HEATING_STATE_HEATING}
                /\ pti_status'.temperature_c > TempOn
                /\ pti_status'.temperature_c < TempOff)
                 => (/\ pti_status'.state = pti_status.state
                     /\ pti_status'.gas_on = pti_status.gas_on
                     /\ pti_status'.igniter_on = pti_status.igniter_on)]_vars

\* HEATING has been kept through a scan at a temperature inside the band
C10_Witness ==
    /\ pti_status.state = PTX_HEATING_STATE_HEATING
    /\ pti_status.temperature_c > TempOn
    /\ pti_status.temperature_c < TempOff
    /\ ~pti_status.door_open /\ ~pti_status.sensor_fault
    /\ obs.ign_run = -1

\* the scan is a failed ignition: it started in IGNITING at or past the
\* ignition period, without override, flame detection compiled in, and the
\* temperature has not risen by more than flame_detect_temp_rise_c
FailedIgnitionScan ==
    /\ ScanStep
    /\ ObsFailedIgnition(pti_oven_config, flame_detect, pti_status, pti_status',
                         obs'.ign_run, obs.ign_temp)

\* C11 - Lockout after exhausted retries: with flame detection enabled and no
\* override, the k-th consecutive failed ignition ends with gas and igniter
\* off, in PURGING when k < max_ignition_attempts, and in LOCKOUT with
\* ignition_lockout set when k = max_ignition_attempts; k never exceeds it.
C11_LockoutAfterRetries ==
    [][FailedIgnitionScan
         => /\ OutputsOff(pti_status')
            /\ obs'.fails <= pti_oven_config.max_ignition_attempts
            /\ obs'.fails < pti_oven_config.max_ignition_attempts
                 => pti_status'.state = PTX_HEATING_STATE_PURGING
            /\ obs'.fails = pti_oven_config.max_ignition_attempts
                 => (/\ pti_status'.state = PTX_HEATING_STATE_LOCKOUT
                     /\ pti_status'.ignition_lockout)]_vars

\* the last permitted attempt has failed and the controller is locked out
C11_Witness ==
    /\ obs.fails = pti_oven_config.max_ignition_attempts
    /\ pti_oven_config.max_ignition_attempts > 1
    /\ pti_status.state = PTX_HEATING_STATE_LOCKOUT
    /\ pti_status.ignition_lockout
    /\ OutputsOff(pti_status)

\* C12 - Purge is mandatory: after a failed ignition has entered PURGING, gas
\* is not turned on before a scan at least purge_time_ms later, whatever door
\* events and sensor faults come in between; in PURGING both outputs are off.
C12_PurgeMandatory ==
    [][/\ (~pti_status.gas_on /\ pti_status'.gas_on) => obs'.purge_run < 0
       /\ pti_status'.state = PTX_HEATING_STATE_PURGING => OutputsOff(pti_status')]_vars

\* a step of ptx_oven_reset_ignition_lockout that changes the state: not a
\* scan, and the door flag is the same
ResetStep == ~ScanStep /\ pti_status'.door_open = pti_status.door_open

\* C13 - Reset from lockout: ptx_oven_reset_ignition_lockout called in LOCKOUT
\* returns with state IDLE, ignition_attempt 0 (the counter and its copy in
\* the status) and ignition_lockout false, whatever the timestamp, the door
\* flag and the sensor flags are.
C13_ResetFromLockout ==
    [][(ResetStep /\ pti_status.state = PTX_HEATING_STATE_LOCKOUT)
         => (/\ pti_status'.state = PTX_HEATING_STATE_IDLE
             /\ pti_status'.ignition_attempt = 0
             /\ pti_ignition_attempt' = 0
             /\ ~pti_status'.ignition_lockout)]_vars

\* the reset has just acted on the lockout that followed the last failed
\* attempt (no scan has run since), here with the door open
C13_Witness ==
    /\ obs.fails = pti_oven_config.max_ignition_attempts
    /\ pti_status.state = PTX_HEATING_STATE_IDLE
    /\ pti_status.ignition_attempt = 0
    /\ ~pti_status.ignition_lockout
    /\ pti_status.door_open

\* C14 - Reset is safe to call anytime: in every reachable state, the status
\* ptx_oven_reset_ignition_lockout returns with has ignition_attempt 0 and
\* ignition_lockout false.
C14_ResetAnytime ==
    LET r == ptx_oven_reset_ignition_lockout(Statics)
    IN  r.status.ignition_attempt = 0 /\ ~r.status.ignition_lockout

\* C15 - Door write race: a door-open value written by the interrupt, in the
\* middle of a running scan too, is not overwritten by the scan: door_open
\* goes from true to false only by a call of ptx_oven_set_door_state (which
\* leaves door_reg alone); and a scan that found the door open when it
\* started, the door not closed since, ends with gas and igniter off.
C15_DoorWriteKept ==
    [][/\ (pti_status.door_open /\ ~pti_status'.door_open) => door_reg' = door_reg
       /\ (door_reg = <<TRUE>> /\ door_reg' = <<>> /\ pti_status.door_open)
            => OutputsOff(pti_status')]_vars

\* C16 - End-to-end scenario (door closed, flame detection disabled, target
\* 180 C, half-band 2 C, vref 5000 mV): after the first scan, at 160 C, gas
\* and igniter are on and the state is IGNITING; after the second scan,
\* 5000 ms later, the igniter is off, gas on, state HEATING; after the third
\* scan, at 185 C, both are off and the state is IDLE.
C16_EndToEnd ==
    /\ obs.script = 1
         => (/\ pti_status.gas_on /\ pti_status.igniter_on
             /\ pti_status.state = PTX_HEATING_STATE_IGNITING)
    /\ obs.script = 2
         => (/\ pti_status.gas_on /\ ~pti_status.igniter_on
             /\ pti_status.state = PTX_HEATING_STATE_HEATING)
    /\ obs.script = 3
         => (/\ OutputsOff(pti_status)
             /\ pti_status.state = PTX_HEATING_STATE_IDLE)

\* the three scans of the scenario have been played, the second one across
\* the wrap of the millisecond counter
C16_Witness ==
    /\ obs.script = 3
    /\ pti_ignition_start_ms = E2EBase
    /\ pti_status.state = PTX_HEATING_STATE_IDLE
    /\ pti_status.temperature_c > 184000

\* C17 - Over-temperature shut-off: every scan that computes a temperature
\* >= temp_target_c + temp_delta_c ends with gas and igniter off, whatever
\* state it started in (IGNITING before the end of the ignition period too).
C17_OverTempShutOff ==
    [][(ScanStep /\ pti_status'.temperature_c >= TempOff)
         => OutputsOff(pti_status')]_vars

\* C18 - Sensor fault shuts down at once: every scan that reads a reference
\* voltage outside [vref_min_v, vref_max_v] ends with sensor_fault set and
\* with gas and igniter off, the first such scan after init included.
C18_VrefFaultAtOnce ==
    [][(ScanStep /\ pti_status'.vref_fault)
         => (pti_status'.sensor_fault /\ OutputsOff(pti_status'))]_vars

\* C19 - Auto-resume re-ignites: the scan that clears a latched sensor_fault,
\* with the door closed and a temperature <= temp_target_c - temp_delta_c,
\* starts ignition itself: it ends with gas and igniter on, state IGNITING
\* and ignition_attempt 1.
C19_AutoResumeReignites ==
    [][(/\ ScanStep
        /\ pti_status.sensor_fault /\ ~pti_status'.sensor_fault
        /\ ~pti_status.door_open
        /\ pti_status'.temperature_c <= TempOn)
         => (/\ pti_status'.gas_on /\ pti_status'.igniter_on
             /\ pti_status'.state = PTX_HEATING_STATE_IGNITING
             /\ pti_status'.ignition_attempt = 1)]_vars

\* the scan that completed the valid run has cleared the fault and started
\* ignition
C19_Witness ==
    /\ obs.valid_run >= pti_oven_config.auto_resume_delay_ms
    /\ ~pti_status.sensor_fault
    /\ obs.ign_run = 0
    /\ pti_status.state = PTX_HEATING_STATE_IGNITING
    /\ pti_status.gas_on /\ pti_status.igniter_on
    /\ pti_status.ignition_attempt = 1
    /\ pti_status.temperature_c <= TempOn

\* the k-th smallest of the values of the sequence v, by counting
OrderStatistic(v, k) ==
    CHOOSE x \in {v[i] : i \in DOMAIN v} :
        /\ Cardinality({i \in DOMAIN v : v[i] < x}) < k
        /\ Cardinality({i \in DOMAIN v : v[i] <= x}) >= k

Median(v) ==
    LET n == Len(v)
    IN  IF n % 2 = 1 THEN OrderStatistic(v, (n + 1) \div 2)
        ELSE (OrderStatistic(v, n \div 2) + OrderStatistic(v, n \div 2 + 1)) \div 2

\* channel ch of the last W raw samples
LastSamples(W, ch) ==
    [i \in 1..W |-> obs.samples[Len(obs.samples) - W + i][ch]]

\* C20 - Median filter correctness: for every window size W in 3..10, after
\* at least W calls of ptx_sensor_filter_update since init or reset the
\* reading returned is valid and each channel is the median of the last W
\* raw samples of that channel (even W: the integer average of the two
\* central values), whatever came before them.
C20_MedianOfLastW ==
    LET W == pti_filter_state.window_size
    IN  /\ W \in 3..PTX_FILTER_MAX_WINDOW
        /\ Len(obs.samples) >= W
             => /\ obs.reading.valid
                /\ obs.reading.vref_mv = Median(LastSamples(W, 1))
                /\ obs.reading.signal_mv = Median(LastSamples(W, 2))

\* the largest window has been filled and passed, and the reading of the
\* vref channel is the average of two different central values
C20_Witness ==
    LET W == pti_filter_state.window_size
    IN  /\ W = PTX_FILTER_MAX_WINDOW
        /\ Len(obs.samples) > W
        /\ obs.reading.valid
        /\ obs.reading.vref_mv \notin {obs.samples[i][1] : i \in DOMAIN obs.samples}

\* C21 - Warm-up validity: each of the first W-1 calls of
\* ptx_sensor_filter_update after init or reset returns valid = false and the
\* raw pair it was passed.
C21_WarmUpRaw ==
    LET W == pti_filter_state.window_size
        n == Len(obs.samples)
    IN  (n >= 1 /\ n <= W - 1)
          => (/\ ~obs.reading.valid
              /\ obs.reading.vref_mv = obs.samples[n][1]
              /\ obs.reading.signal_mv = obs.samples[n][2])

\* the last warm-up call of the largest window has returned its raw pair
C21_Witness ==
    /\ pti_filter_state.window_size = PTX_FILTER_MAX_WINDOW
    /\ Len(obs.samples) = PTX_FILTER_MAX_WINDOW - 1
    /\ pti_filter_state.history_count = PTX_FILTER_MAX_WINDOW - 1
    /\ ~obs.reading.valid
    /\ <<obs.reading.vref_mv, obs.reading.signal_mv>> = obs.samples[Len(obs.samples)]

(***************************************************************************)
(* C22: every individual setter called with a value inside its range       *)
(* stores exactly that value in its field (both limits for the vref        *)
(* setter) and changes no other field; called with a value outside its     *)
(* range, or for ptx_oven_set_vref_range_v with min_v >= max_v, it leaves  *)
(* every configuration field as it was.                                    *)
(*                                                                         *)
(* The ranges are the documented ones: ignition duration 1000-30000 ms,    *)
(* log interval 100-60000 ms, fault window 100-10000 ms, auto-resume       *)
(* 1000-30000 ms, vref limits 0-10 V, target 0-300 C, delta 0.1-50 C,      *)
(* attempts 1-10, purge 1000-10000 ms, flame rise above 0 up to 50 C.      *)
(***************************************************************************)
Within(v, lo, hi) == lo <= v /\ v <= hi

\* the store a documented setter call leaves behind
DocumentedSetter(before, call) ==
    LET f == call[1]
        v == call[2]
    IN  CASE f = "ignition_duration_ms" ->
               IF Within(v, 1000, 30000)
               THEN [before EXCEPT !.ignition_duration_ms = v] ELSE before
          [] f = "periodic_log_ms" ->
               IF Within(v, 100, 60000)
               THEN [before EXCEPT !.periodic_log_ms = v] ELSE before
          [] f = "sensor_fault_window_ms" ->
               IF Within(v, 100, 10000)
               THEN [before EXCEPT !.sensor_fault_window_ms = v] ELSE before
          [] f = "auto_resume_delay_ms" ->
               IF Within(v, 1000, 30000)
               THEN [before EXCEPT !.auto_resume_delay_ms = v] ELSE before
          [] f = "vref_range_v" ->
               IF Within(v, 0, 10000) /\ Within(call[3], 0, 10000)
                  /\ ~(v >= call[3])
               THEN [before EXCEPT !.vref_min_v = v, !.vref_max_v = call[3]]
               ELSE before
          [] f = "temp_target_c" ->
               IF Within(v, 0, 300000)
               THEN [before EXCEPT !.temp_target_c = v] ELSE before
          [] f = "temp_delta_c" ->
               IF Within(v, 100, 50000)
               THEN [before EXCEPT !.temp_delta_c = v] ELSE before
          [] f = "max_ignition_attempts" ->
               IF Within(v, 1, 10)
               THEN [before EXCEPT !.max_ignition_attempts = v] ELSE before
          [] f = "purge_time_ms" ->
               IF Within(v, 1000, 10000)
               THEN [before EXCEPT !.purge_time_ms = v] ELSE before
          [] f = "flame_detect_temp_rise_c" ->
               IF v > 0 /\ v <= 50000
               THEN [before EXCEPT !.flame_detect_temp_rise_c = v] ELSE before

C23_OutputsFollowState ==
    /\ pti_status.state = PTX_HEATING_STATE_IGNITING
         => pti_status.gas_on /\ pti_status.igniter_on
    /\ pti_status.state = PTX_HEATING_STATE_HEATING
         => pti_status.gas_on /\ ~pti_status.igniter_on
    /\ pti_status.state \in {PTX_HEATING_STATE_IDLE, PTX_HEATING_STATE_PURGING,
                             PTX_HEATING_STATE_LOCKOUT}
         => ~pti_status.gas_on /\ ~pti_status.igniter_on
    /\ pti_status.igniter_on => pti_status.gas_on

\* HEATING reached through a detected flame: gas on, igniter off (the door
\* has opened since the scan)
C23_Witness ==
    /\ pti_status.state = PTX_HEATING_STATE_HEATING
    /\ flame_detect
    /\ pti_status.gas_on
    /\ ~pti_status.igniter_on
    /\ pti_status.door_open

(***************************************************************************)
(* C24: the actuator commands track the status.  A scan ends with the      *)
(* commanded gas valve and igniter equal to status.gas_on and              *)
(* status.igniter_on; a step that is not a scan (ptx_oven_set_door_state,  *)
(* ptx_oven_reset_ignition_lockout) leaves the commands as they were.      *)
(***************************************************************************)
C24_ActuatorTracksStatus ==
    [][/\ ScanStep => /\ actuator'.gas = pti_status'.gas_on
                      /\ actuator'.igniter = pti_status'.igniter_on
       /\ ~ScanStep => actuator' = actuator]_vars

\* the door has opened during ignition: the commands of the last scan stand
C24_Witness ==
    /\ pti_status.state = PTX_HEATING_STATE_IGNITING
    /\ pti_status.door_open
    /\ actuator.gas
    /\ actuator.igniter

(***************************************************************************)
(* C25: bookkeeping of the attempt counter.  A scan that takes IDLE to     *)
(* IGNITING adds exactly 1 to the counter; a scan that takes IGNITING to   *)
(* PURGING, or PURGING to IDLE on the completed purge, leaves it; ignition *)
(* success (IGNITING to HEATING), HEATING to IDLE, every scan that runs    *)
(* the override shutdown, and the reset of a lockout set it to 0.  Every   *)
(* scan ends with status.ignition_attempt equal to the counter.            *)
(***************************************************************************)
Transition(from, to) ==
    ScanStep /\ pti_status.state = from /\ pti_status'.state = to

C25_AttemptBookkeeping ==
    [][/\ Transition(PTX_HEATING_STATE_IDLE, PTX_HEATING_STATE_IGNITING)
            => pti_ignition_attempt' = pti_ignition_attempt + 1
       /\ Transition(PTX_HEATING_STATE_IGNITING, PTX_HEATING_STATE_PURGING)
            => pti_ignition_attempt' = pti_ignition_attempt
       /\ (Transition(PTX_HEATING_STATE_PURGING, PTX_HEATING_STATE_IDLE)
              /\ ~OverrideInScan)
            => pti_ignition_attempt' = pti_ignition_attempt
       /\ Transition(PTX_HEATING_STATE_IGNITING, PTX_HEATING_STATE_HEATING)
            => pti_ignition_attempt' = 0
       /\ Transition(PTX_HEATING_STATE_HEATING, PTX_HEATING_STATE_IDLE)
            => pti_ignition_attempt' = 0
       /\ (ScanStep /\ OverrideInScan) => pti_ignition_attempt' = 0
       /\ (ResetStep /\ pti_status.state = PTX_HEATING_STATE_LOCKOUT)
            => pti_ignition_attempt' = 0
       /\ ScanStep => pti_status'.ignition_attempt = pti_ignition_attempt'
      ]_vars

\* the second ignition has started after a failed attempt and its purge
C25_Witness ==
    /\ pti_status.state = PTX_HEATING_STATE_IGNITING
    /\ pti_ignition_attempt = 2
    /\ pti_status.ignition_attempt = 2
    /\ pti_status.gas_on

(***************************************************************************)
(* C26: with flame detection disabled (the default build) PURGING and      *)
(* LOCKOUT are never reached, ignition_lockout is never true and the       *)
(* attempt counter (and its copy in the status) never exceeds 1, whatever  *)
(* the scans, door events and sensor readings are.                         *)
(***************************************************************************)
C26_NoRetriesWithoutFlameDetect ==
    ~flame_detect
      => /\ pti_status.state \notin {PTX_HEATING_STATE_PURGING,
                                     PTX_HEATING_STATE_LOCKOUT}
         /\ ~pti_status.ignition_lockout
         /\ pti_ignition_attempt <= 1
         /\ pti_status.ignition_attempt <= 1

\* the ignition period has ended without any temperature rise and the
\* ignition was taken as successful
C26_Witness ==
    /\ ~flame_detect
    /\ pti_status.state = PTX_HEATING_STATE_HEATING
    /\ pti_status.temperature_c <= pti_temp_at_ignition_start
    /\ pti_ignition_attempt = 0

(***************************************************************************)
(* C29: the lockout flag matches the state.  Every scan and every call of  *)
(* ptx_oven_reset_ignition_lockout ends with status.ignition_lockout true  *)
(* exactly when the state is LOCKOUT; no step turns gas_on on while        *)
(* ignition_lockout is true.                                               *)
(***************************************************************************)
C29_LockoutFlagMatchesState ==
    [][/\ (ScanStep \/ ResetStep)
            => (pti_status'.ignition_lockout
                  <=> pti_status'.state = PTX_HEATING_STATE_LOCKOUT)
       /\ (~pti_status.gas_on /\ pti_status'.gas_on)
            => ~pti_status'.ignition_lockout]_vars

(***************************************************************************)
(* C30: bounded retries.  With the configuration fixed, the attempt        *)
(* counter and its copy in the status are at most max_ignition_attempts in *)
(* every reachable state.                                                  *)
(***************************************************************************)
C30_BoundedRetries ==
    /\ pti_ignition_attempt <= pti_oven_config.max_ignition_attempts
    /\ pti_status.ignition_attempt <= pti_oven_config.max_ignition_attempts

\* the last permitted attempt has been made and has failed
C30_Witness ==
    /\ pti_ignition_attempt = pti_oven_config.max_ignition_attempts
    /\ pti_status.state = PTX_HEATING_STATE_LOCKOUT
    /\ obs.fails = pti_oven_config.max_ignition_attempts
    /\ ~pti_status.door_open

(***************************************************************************)
(* C27: the filter state invariant.  In every state reachable after init,  *)
(* 3 <= window_size <= 10, history_index < window_size (so the next write  *)
(* falls inside both buffers) and history_count <= window_size.  Called in *)
(* any such state, ptx_sensor_filter_init(w) leaves window_size equal to w *)
(* clamped into [3,10] with an empty history, and ptx_sensor_filter_reset  *)
(* leaves history_count and history_index 0 and window_size as it was.     *)
(***************************************************************************)
ClampWindow(w) == IF w < 3 THEN 3 ELSE IF w > 10 THEN 10 ELSE w

EmptyHistory(fs) ==
    /\ fs.history_count = 0
    /\ fs.history_index = 0
    /\ \A i \in 1..PTX_FILTER_MAX_WINDOW :
          fs.vref_history[i] = 0 /\ fs.signal_history[i] = 0

C27_FilterStateInvariant ==
    /\ 3 <= pti_filter_state.window_size
    /\ pti_filter_state.window_size <= 10
    /\ pti_filter_state.history_index < pti_filter_state.window_size
    /\ pti_filter_state.history_index + 1 \in DOMAIN pti_filter_state.vref_history
    /\ pti_filter_state.history_index + 1 \in DOMAIN pti_filter_state.signal_history
    /\ pti_filter_state.history_count <= pti_filter_state.window_size
    /\ \A w \in FilterWindowRequests :
          LET fs == ptx_sensor_filter_init(pti_filter_state, w)
          IN  fs.window_size = ClampWindow(w) /\ EmptyHistory(fs)
    /\ LET fs == ptx_sensor_filter_reset(pti_filter_state)
       IN  /\ fs.history_count = 0
           /\ fs.history_index = 0
           /\ fs.window_size = pti_filter_state.window_size

\* the largest window is full and the write position has wrapped
C27_Witness ==
    /\ pti_filter_state.window_size = PTX_FILTER_MAX_WINDOW
    /\ pti_filter_state.history_count = PTX_FILTER_MAX_WINDOW
    /\ pti_filter_state.history_index = 2
    /\ Len(obs.samples) = PTX_FILTER_MAX_WINDOW + 2

(***************************************************************************)
(* C28: wraparound-correct timing.  In a scan without override, the        *)
(* difference (now - start) taken modulo 2^32 is the time that has really  *)
(* passed since ignition (resp. the purge) started, whether or not the     *)
(* counter has wrapped in between; and the scan leaves IGNITING (resp.     *)
(* PURGING) exactly when that difference has reached ignition_duration_ms  *)
(* (resp. purge_time_ms).  So the state is left on the first scan at which *)
(* the duration has elapsed and on no earlier one.                         *)
(***************************************************************************)
\* (now - start) mod 2^32 at the scan being taken, as a number
ElapsedAtScan(start_ms) ==
    LET e == Sub32(now', start_ms) IN e[1] * U16 + e[2]

\* the clock advance of the scan being taken
ScanAdvance == LET e == Sub32(now', now) IN e[1] * U16 + e[2]

C28_WraparoundTiming ==
    [][(ScanStep /\ ~OverrideInScan)
         => /\ pti_status.state = PTX_HEATING_STATE_IGNITING
                 => /\ obs'.ign_run
                         = Min(ElapsedAtScan(pti_ignition_start_ms),
                               pti_oven_config.ignition_duration_ms)
                    /\ pti_status'.state # PTX_HEATING_STATE_IGNITING
                         <=> ElapsedAtScan(pti_ignition_start_ms)
                               >= pti_oven_config.ignition_duration_ms
            /\ pti_status.state = PTX_HEATING_STATE_PURGING
                 => /\ obs.purge_run + ScanAdvance
                         = ElapsedAtScan(pti_purge_start_ms)
                    /\ pti_status'.state # PTX_HEATING_STATE_PURGING
                         <=> ElapsedAtScan(pti_purge_start_ms)
                               >= pti_oven_config.purge_time_ms]_vars

\* a purge that started before the counter wrapped has ended after the wrap
C28_Witness ==
    /\ pti_status.state = PTX_HEATING_STATE_IDLE
    /\ pti_ignition_attempt = 1
    /\ pti_purge_start_ms = <<U16 - 1, U16 - 1>>
    /\ now = Zero32
    /\ obs.purge_run = -1

(***************************************************************************)
(* C31: init is a full reset.  ptx_oven_control_init, called after any     *)
(* scans, leaves the controller in the state of a freshly started one, the *)
(* fault timers pti_out_of_range_since_ms and pti_valid_since_ms being 0   *)
(* too; and the first scan after it ends with sensor_fault false.  (The    *)
(* filter history is empty exactly at start-up and after init.)            *)
(***************************************************************************)
C31_InitFullReset ==
    [][/\ pti_filter_state'.history_count = 0
            => /\ pti_status' = InitStatus
               /\ pti_ignition_start_ms' = Zero32
               /\ pti_last_log_ms' = Zero32
               /\ pti_out_of_range_since_ms' = Zero32
               /\ pti_valid_since_ms' = Zero32
               /\ pti_ignition_attempt' = 0
               /\ pti_purge_start_ms' = Zero32
               /\ pti_temp_at_ignition_start' = 0
               /\ actuator' = ActuatorInit
       /\ (pti_filter_state.history_count = 0
             /\ pti_filter_state'.history_count = 1)
            => ~pti_status'.sensor_fault]_vars

(***************************************************************************)
(* C32: the configuration stays valid.  After any sequence of setter       *)
(* calls, ptx_oven_set_config calls and resets to the defaults, every      *)
(* parameter lies in the range its setter accepts and vref_min_v is below  *)
(* vref_max_v.                                                             *)
(***************************************************************************)
ConfigValid(cfg) ==
    /\ Within(cfg.ignition_duration_ms, 1000, 30000)
    /\ Within(cfg.periodic_log_ms, 100, 60000)
    /\ Within(cfg.sensor_fault_window_ms, 100, 10000)
    /\ Within(cfg.auto_resume_delay_ms, 1000, 30000)
    /\ Within(cfg.vref_min_v, 0, 10000)
    /\ Within(cfg.vref_max_v, 0, 10000)
    /\ cfg.vref_min_v < cfg.vref_max_v
    /\ Within(cfg.temp_target_c, 0, 300000)
    /\ Within(cfg.temp_delta_c, 100, 50000)
    /\ Within(cfg.max_ignition_attempts, 1, 10)
    /\ Within(cfg.purge_time_ms, 1000, 10000)
    /\ cfg.flame_detect_temp_rise_c > 0
    /\ cfg.flame_detect_temp_rise_c <= 50000

C32_ConfigStaysValid == ConfigValid(pti_oven_config)

(***************************************************************************)
(* C33: ignition and the purge always end.  While the scan loop keeps      *)
(* calling ptx_oven_control_update with a strictly advancing clock, a      *)
(* controller in IGNITING eventually is in another state, and a controller *)
(* in PURGING eventually is in IDLE.                                       *)
(***************************************************************************)
C33_IgnitionAndPurgeEnd ==
    /\ (pti_status.state = PTX_HEATING_STATE_IGNITING)
          ~> (pti_status.state # PTX_HEATING_STATE_IGNITING)
    /\ (pti_status.state = PTX_HEATING_STATE_PURGING)
          ~> (pti_status.state = PTX_HEATING_STATE_IDLE)

\* an ignition that started before the counter wrapped is still running
\* after the wrap
C33_Witness ==
    /\ pti_status.state = PTX_HEATING_STATE_IGNITING
    /\ pti_status.igniter_on
    /\ Gt32(pti_ignition_start_ms, now)
    /\ Sub32(now, pti_ignition_start_ms) = U32Of(LiveTick)

====
